---- MODULE Spec2Model ----
(***************************************************************************)
(* Real-time collaboration subsystem of smart-collab-backend:               *)
(* apps/collaboration/consumers.py (CollaborationConsumer), models.py      *)
(* (CollaborationRoom, CollaborationSession, CollaborationActivity,        *)
(* CursorPosition) and views.py (CollaborationRoomViewSet.join).           *)
(*                                                                         *)
(* Every WebSocket connection is one consumer instance that handles one    *)
(* inbound message or one channel-layer event at a time.  A handler that   *)
(* issues several database statements is split at the statements other     *)
(* consumers (other workers) can interleave with: the code opens no        *)
(* transaction and takes no lock.                                          *)
(***************************************************************************)
EXTENDS Integers, Sequences, FiniteSets, TLC

Conns == {"c1", "c2", "c3", "c4"}
Users == {"u1", "u2"}
\* the rooms of a database with one room, and of one with two
Rooms == {"r1"}
BothRooms == {"r1", "r2"}
Positions == {"p1", "p2"}
None == "none"
\* self.session = None
NoSession == 0
\* left_at = NULL
NoTime == -1
\* no HTTP request in flight
NoHttp == [user |-> None, room |-> None]

\* timedelta(minutes=5), in minutes
LivenessWindow == 5
\* the clock stops here
MaxTime == 6
\* inbound messages and HTTP requests handled in one run, over all clients
MaxMsgs == 4
\* capacity of one channel of the channel layer; a full channel drops the event
MaxQueue == 2
\* the clock advances in these strides: to the edge of the window, and past it
TickSteps == {LivenessWindow, LivenessWindow + 1}

VARIABLES
    now,         \* timezone.now()
    rooms,       \* CollaborationRoom rows: room id -> fields
    sessions,    \* CollaborationSession rows
    activities,  \* CollaborationActivity rows, in insertion order
    cursors,     \* CursorPosition rows
    cstate,      \* connection: "open" | "closed"
    cuser,       \* consumer's self.user
    croom,       \* consumer's self.room
    csession,    \* consumer's self.session (the row's id)
    pc,          \* consumer's position inside the handler it is running
    loc,         \* the running handler's local variables
    group,       \* channel layer: group name -> channels
    chan,        \* channel layer: channel -> queued events
    sent,        \* frames written to WebSockets by the last step
    lastcur,     \* per (room, user): position of the last cursor update handled
    refused,     \* per connection: its last authenticate, by a user with no
                 \* session in the room, met a full room
    http,        \* the HTTP join request between its SELECT and its INSERT
    budget,      \* inbound messages the run may still handle
    seen,        \* per connection: highest sequence number received in a frame
    cleft_at     \* consumer's self.session.left_at, as loaded when it joined

vars == <<now, rooms, sessions, activities, cursors, cstate, cuser, croom,
          csession, pc, loc, group, chan, sent, lastcur, refused, http, budget,
          seen, cleft_at>>

\* URL route kwarg room_id of each connection: c4 is a client of room r2
room_id(c) == IF c = "c4" THEN "r2" ELSE "r1"

NoLoc == [atype |-> None, seq |-> 0, pos |-> None]

Frame(to, type, origin, seq, user, info) ==
    [to |-> to, type |-> type, origin |-> origin, seq |-> seq, user |-> user,
     info |-> info]

\* a channel-layer event; origin (the consumer that sent it) and seq (the
\* sequence number of the activity it announces) travel with it for the
\* properties only: the handlers read type, sender_channel and user
Event(type, sender_channel, origin, seq, user) ==
    [type |-> type, sender_channel |-> sender_channel, origin |-> origin,
     seq |-> seq, user |-> user]

send_error(c, message) == Frame(c, "error", None, 0, None, message)

----------------------------------------------------------------------------
(* models.py: CollaborationRoom / CollaborationSession                      *)

is_active(s) ==
    IF s.status # "active" THEN FALSE
    ELSE s.last_seen >= now - LivenessWindow

get_active_sessions(r) ==
    {s \in sessions : s.room = r /\ s.status = "active"
                      /\ s.last_seen >= now - LivenessWindow}

\* active_participants_count without the last_seen filter: every session in
\* status active counts, however long it has been silent
active_participants_count_by_status(r) ==
    Cardinality({s \in sessions : s.room = r /\ s.status = "active"})

active_participants_count(r) ==
    Cardinality({s \in sessions : s.room = r /\ s.status = "active"
                                  /\ s.last_seen >= now - LivenessWindow})

is_full(r) == active_participants_count(r) >= rooms[r].max_participants

\* team.memberships.filter(user=user, status="active").exists()
is_member(r, u) == u \in rooms[r].members

\* Document.can_read(user)
can_read(r, u) == u \in rooms[r].readers

\* can_join without the capacity check
can_join_any_capacity(r, u) ==
    IF rooms[r].status # "active" THEN FALSE
    ELSE IF ~rooms[r].allow_anonymous /\ ~is_member(r, u) THEN FALSE
    ELSE IF ~can_read(r, u) THEN FALSE
    ELSE TRUE

can_join(r, u) ==
    IF rooms[r].status # "active" THEN FALSE
    ELSE IF is_full(r) THEN FALSE
    ELSE IF ~rooms[r].allow_anonymous /\ ~is_member(r, u) THEN FALSE
    ELSE IF ~can_read(r, u) THEN FALSE
    ELSE TRUE

----------------------------------------------------------------------------
\* open: the connections accepted so far (connect() has run: user, session and
\* room are None); cap: the room's max_participants; b: the run's messages
InitWith(open, cap, b) ==
    /\ now = 0
    /\ rooms = [r \in Rooms |->
                  [status |-> "active", max_participants |-> cap,
                   allow_anonymous |-> FALSE, enable_cursor_tracking |-> TRUE,
                   last_activity |-> 0,
                   members |-> Users, readers |-> Users]]
    /\ sessions = {}
    /\ activities = <<>>
    /\ cursors = {}
    /\ cstate = [c \in Conns |-> IF c \in open THEN "open" ELSE "closed"]
    /\ cuser = [c \in Conns |-> None]
    /\ croom = [c \in Conns |-> None]
    /\ csession = [c \in Conns |-> NoSession]
    /\ pc = [c \in Conns |-> "idle"]
    /\ loc = [c \in Conns |-> NoLoc]
    /\ group = [r \in Rooms |-> {}]
    /\ chan = [c \in Conns |-> <<>>]
    /\ sent = <<>>
    /\ lastcur = [r \in Rooms |-> [u \in Users |-> None]]
    /\ refused = [c \in Conns |-> FALSE]
    /\ http = NoHttp
    /\ budget = b
    /\ seen = [c \in Conns |-> 0]
    /\ cleft_at = [c \in Conns |-> NoTime]

\* two clients connected to a room for one participant
Init == InitWith({"c1", "c2"}, 1, MaxMsgs)

Ready(c) == cstate[c] = "open" /\ pc[c] = "idle"

\* receive(): one inbound message is taken off the socket
Receive(c) == Ready(c) /\ budget > 0 /\ budget' = budget - 1

\* the clock: minutes pass between requests (a handler runs to its end in far
\* less than a stride)
Tick ==
    /\ \A c \in Conns : pc[c] = "idle"
    /\ http = NoHttp
    /\ \E d \in TickSteps : now + d <= MaxTime /\ now' = now + d
    /\ sent' = <<>>
    /\ UNCHANGED <<cleft_at, refused, http, budget, rooms, sessions, activities, cursors, cstate, cuser, croom,
                   csession, pc, loc, group, chan, seen, lastcur>>

----------------------------------------------------------------------------
(* channel layer                                                            *)

\* channel_layer.group_send: one copy per channel of the group; a channel at
\* capacity drops the event
group_send(g, ev) ==
    [c \in Conns |->
        IF c \in g /\ Len(chan[c]) < MaxQueue
        THEN Append(chan[c], ev) ELSE chan[c]]

----------------------------------------------------------------------------
(* consumers.py: receive / handle_authentication                            *)

Tokens == Users \cup {"missing", "invalid"}

\* receive() has no handler named "authenticate": after handle_authentication
\* returns, handlers.get(message_type) is None and the else branch answers
unknown_type(c) == send_error(c, "Unknown message type")

handle_authentication(c, tok) ==
    /\ Receive(c)
    /\ IF tok = "missing"
       THEN /\ sent' = <<send_error(c, "Token required"), unknown_type(c)>>
            /\ UNCHANGED <<cuser, croom, refused>>
       ELSE IF tok = "invalid"
       THEN /\ sent' = <<send_error(c, "Invalid token"), unknown_type(c)>>
            /\ UNCHANGED <<cuser, croom, refused>>
       ELSE /\ cuser' = [cuser EXCEPT ![c] = tok]
            /\ croom' = [croom EXCEPT ![c] = room_id(c)]
            /\ sent' = IF can_join(room_id(c), tok)
                       THEN <<Frame(c, "authenticated", None, 0, tok, room_id(c)),
                              unknown_type(c)>>
                       ELSE <<send_error(c, "Cannot join room"), unknown_type(c)>>
            /\ refused' = [refused EXCEPT ![c] =
                             /\ is_full(room_id(c))
                             /\ csession[c] = NoSession
                             /\ \A s \in sessions :
                                    ~(s.room = room_id(c) /\ s.user = tok)]
    /\ UNCHANGED <<cleft_at, http, now, rooms, sessions, activities, cursors, cstate,
                   csession, pc, loc, group, chan, seen, lastcur>>

MessageTypes == {"join_room", "text_change", "cursor_move", "selection_change",
                 "user_typing", "document_save", "heartbeat"}

\* authentication_required that returns without send_error: the message is
\* dropped in silence
authentication_required_silent(c, type) ==
    /\ Receive(c)
    /\ cuser[c] = None
    /\ sent' = <<>>
    /\ UNCHANGED <<cleft_at, refused, http, now, rooms, sessions, activities, cursors,
                   cstate, cuser, croom, csession, pc, loc, group, chan, seen,
                   lastcur>>

\* receive(): "elif not self.user" for every type but authenticate
authentication_required(c, type) ==
    /\ Receive(c)
    /\ cuser[c] = None
    /\ sent' = <<send_error(c, "Authentication required")>>
    /\ UNCHANGED <<cleft_at, refused, http, now, rooms, sessions, activities, cursors, cstate, cuser,
                   croom, csession, pc, loc, group, chan, seen, lastcur>>

\* receive(): json.loads raises JSONDecodeError, whoever the sender is
receive_invalid_json(c) ==
    /\ Receive(c)
    /\ sent' = <<send_error(c, "Invalid JSON format")>>
    /\ UNCHANGED <<cleft_at, refused, http, now, rooms, sessions, activities, cursors,
                   cstate, cuser, croom, csession, pc, loc, group, chan, seen,
                   lastcur>>

\* receive(): a type that is not in the handlers table, from a connection with
\* self.user set
receive_unknown_type(c) ==
    /\ Receive(c)
    /\ cuser[c] # None
    /\ sent' = <<unknown_type(c)>>
    /\ UNCHANGED <<cleft_at, refused, http, now, rooms, sessions, activities, cursors,
                   cstate, cuser, croom, csession, pc, loc, group, chan, seen,
                   lastcur>>

----------------------------------------------------------------------------
(* consumers.py: handle_join_room                                           *)

session_rows(r, u) == {s \in sessions : s.room = r /\ s.user = u}

\* unique_room_user with the constraint missing from the table: every INSERT
\* goes through
unique_room_user_unconstrained(r, u) == TRUE

\* CollaborationSession.Meta.unique_together = ["room", "user"]: the INSERT of a
\* second row for the pair raises IntegrityError
unique_room_user(r, u) == session_rows(r, u) = {}

\* CollaborationSession.save on INSERT: the field defaults (status active,
\* joined_at = last_seen = now, left_at NULL, total_time 0) and a session_token
\* generated because the new row has none; the n-th row gets the n-th token
new_session(id, r, u, c) ==
    [id |-> id, room |-> r, user |-> u, status |-> "active",
     connection_id |-> c, last_seen |-> now, session_token |-> id,
     joined_at |-> now, left_at |-> NoTime, total_time |-> 0]

\* reactivate that also issues a new session token, as for a new row
reactivate_new_token(s, c) ==
    [s EXCEPT !.status = "active", !.connection_id = c, !.last_seen = now,
              !.session_token = Cardinality(sessions) + 1]

\* get_or_create_session, "if not created": status, connection_id, last_seen;
\* save() leaves a token that is set as it is
reactivate(s, c) ==
    [s EXCEPT !.status = "active", !.connection_id = c, !.last_seen = now]

\* get_or_create(): SELECT; a row found is updated and saved at once
join_get(c) ==
    /\ Receive(c)
    /\ cuser[c] # None
    /\ LET rows == session_rows(croom[c], cuser[c]) IN
       IF rows # {}
       THEN LET s == CHOOSE x \in rows : TRUE IN
            /\ sessions' = (sessions \ {s}) \cup {reactivate(s, c)}
            /\ csession' = [csession EXCEPT ![c] = s.id]
            /\ cleft_at' = [cleft_at EXCEPT ![c] = s.left_at]
            /\ pc' = [pc EXCEPT ![c] = "join_rest"]
       ELSE /\ pc' = [pc EXCEPT ![c] = "join_create"]
            /\ UNCHANGED <<sessions, csession, cleft_at>>
    /\ sent' = <<>>
    /\ UNCHANGED <<refused, http, now, rooms, activities, cursors, cstate, cuser, croom, loc,
                   group, chan, seen, lastcur>>

\* get_or_create(): INSERT with the defaults; on IntegrityError the row that
\* won the race is selected and updated
join_create(c) ==
    /\ cstate[c] = "open"
    /\ pc[c] = "join_create"
    /\ LET r == croom[c]
           u == cuser[c] IN
       IF unique_room_user(r, u)
       THEN LET id == Cardinality(sessions) + 1 IN
            /\ sessions' = sessions \cup
                 {new_session(id, r, u, c)}
            /\ csession' = [csession EXCEPT ![c] = id]
            /\ cleft_at' = [cleft_at EXCEPT ![c] = NoTime]
       ELSE LET s == CHOOSE x \in session_rows(r, u) : TRUE IN
            /\ sessions' = (sessions \ {s}) \cup {reactivate(s, c)}
            /\ csession' = [csession EXCEPT ![c] = s.id]
            /\ cleft_at' = [cleft_at EXCEPT ![c] = s.left_at]
    /\ pc' = [pc EXCEPT ![c] = "join_rest"]
    /\ sent' = <<>>
    /\ UNCHANGED <<refused, http, budget, now, rooms, activities, cursors, cstate, cuser, croom, loc,
                   group, chan, seen, lastcur>>

\* next_sequence_number without filter(room=self.room): one numbering for all
\* rooms
next_sequence_number_all_rooms(r) ==
    LET seqs == {activities[i].seq : i \in DOMAIN activities} IN
    IF seqs = {} THEN 1
    ELSE (CHOOSE m \in seqs : \A n \in seqs : n <= m) + 1

\* CollaborationActivity.save: last row of the room by -sequence_number
next_sequence_number(r) ==
    LET seqs == {activities[i].seq : i \in {j \in DOMAIN activities :
                                              activities[j].room = r}} IN
    IF seqs = {} THEN 1
    ELSE (CHOOSE m \in seqs : \A n \in seqs : n <= m) + 1

\* get_active_participants
get_active_participants(r) == {s.user : s \in get_active_sessions(r)}

\* group_add, get_active_participants, room_joined, broadcast_user_join (sent to
\* the whole group, the joining channel included, with no sender_channel), and
\* record_activity("user_join") up to the SELECT of the last sequence number
join_rest(c) ==
    /\ cstate[c] = "open"
    /\ pc[c] = "join_rest"
    /\ LET r == croom[c]
           g == group[r] \cup {c}
           ev == Event("user_join_broadcast", None, c, 0, cuser[c]) IN
       /\ group' = [group EXCEPT ![r] = g]
       /\ chan' = group_send(g, ev)
       /\ sent' = <<Frame(c, "room_joined", None, 0, cuser[c],
                          [session_id |-> csession[c],
                           participants |-> get_active_participants(r)])>>
       /\ loc' = [loc EXCEPT ![c] = [NoLoc EXCEPT !.atype = "user_join",
                                       !.seq = next_sequence_number(r)]]
    /\ pc' = [pc EXCEPT ![c] = "rec_insert"]
    /\ UNCHANGED <<cleft_at, refused, http, budget, now, rooms, sessions, activities, cursors, cstate, cuser,
                   croom, csession, seen, lastcur>>

----------------------------------------------------------------------------
(* consumers.py: record_activity, handle_text_change, handle_document_save  *)

\* CollaborationActivity.save: INSERT with the sequence number read before
record_insert(c) ==
    /\ cstate[c] = "open"
    /\ pc[c] = "rec_insert"
    /\ activities' = Append(activities,
         [room |-> croom[c], session |-> csession[c], user |-> cuser[c],
          type |-> loc[c].atype, seq |-> loc[c].seq])
    /\ IF loc[c].atype = "user_join"
       THEN /\ pc' = [pc EXCEPT ![c] = "idle"]
            /\ loc' = [loc EXCEPT ![c] = NoLoc]
       ELSE /\ pc' = [pc EXCEPT ![c] = "rec_send"]
            /\ UNCHANGED loc
    /\ sent' = <<>>
    /\ UNCHANGED <<cleft_at, refused, http, budget, now, rooms, sessions, cursors, cstate, cuser, croom,
                   csession, group, chan, seen, lastcur>>

\* the group_send that follows record_activity in handle_text_change and
\* handle_document_save
record_send(c) ==
    /\ cstate[c] = "open"
    /\ pc[c] = "rec_send"
    /\ chan' = group_send(group[croom[c]],
                 Event(IF loc[c].atype = "text_insert"
                       THEN "text_change_broadcast"
                       ELSE "document_save_broadcast",
                       c, c, loc[c].seq, cuser[c]))
    /\ pc' = [pc EXCEPT ![c] = "idle"]
    /\ loc' = [loc EXCEPT ![c] = NoLoc]
    /\ sent' = <<>>
    /\ UNCHANGED <<cleft_at, refused, http, budget, now, rooms, sessions, activities, cursors, cstate, cuser,
                   croom, csession, group, seen, lastcur>>

\* handle_text_change that records before it looks at the fields
handle_text_change_unvalidated(c, valid) ==
    /\ Receive(c)
    /\ cuser[c] # None
    /\ IF csession[c] = NoSession
       THEN /\ sent' = <<send_error(c, "Failed to process text change")>>
            /\ UNCHANGED <<pc, loc>>
       ELSE /\ sent' = <<>>
            /\ pc' = [pc EXCEPT ![c] = "rec_insert"]
            /\ loc' = [loc EXCEPT ![c] = [NoLoc EXCEPT !.atype = "text_insert",
                                            !.seq = next_sequence_number(croom[c])]]
    /\ UNCHANGED <<cleft_at, refused, http, now, rooms, sessions, activities, cursors,
                   cstate, cuser, croom, csession, group, chan, seen, lastcur>>

\* handle_text_change: required fields, then record_activity("text_insert").
\* With self.session None the INSERT raises (session is NOT NULL) and the
\* except branch answers.
handle_text_change(c, valid) ==
    /\ Receive(c)
    /\ cuser[c] # None
    /\ IF ~valid
       THEN /\ sent' = <<send_error(c, "Missing required fields for text change")>>
            /\ UNCHANGED <<pc, loc>>
       ELSE IF csession[c] = NoSession
       THEN /\ sent' = <<send_error(c, "Failed to process text change")>>
            /\ UNCHANGED <<pc, loc>>
       ELSE /\ sent' = <<>>
            /\ pc' = [pc EXCEPT ![c] = "rec_insert"]
            /\ loc' = [loc EXCEPT ![c] = [NoLoc EXCEPT !.atype = "text_insert",
                                            !.seq = next_sequence_number(croom[c])]]
    /\ UNCHANGED <<cleft_at, refused, http, now, rooms, sessions, activities, cursors, cstate, cuser,
                   croom, csession, group, chan, seen, lastcur>>

\* handle_document_save: record_activity("document_save"); its except branch
\* only logs
handle_document_save(c) ==
    /\ Receive(c)
    /\ cuser[c] # None
    /\ IF csession[c] = NoSession
       THEN UNCHANGED <<pc, loc>>
       ELSE /\ pc' = [pc EXCEPT ![c] = "rec_insert"]
            /\ loc' = [loc EXCEPT ![c] = [NoLoc EXCEPT !.atype = "document_save",
                                            !.seq = next_sequence_number(croom[c])]]
    /\ sent' = <<>>
    /\ UNCHANGED <<cleft_at, refused, http, now, rooms, sessions, activities, cursors, cstate, cuser,
                   croom, csession, group, chan, seen, lastcur>>

----------------------------------------------------------------------------
(* consumers.py: handle_cursor_move, handle_selection_change,               *)
(* update_cursor_position                                                   *)

cursor_rows(r, u) == {k \in cursors : k.room = r /\ k.user = u}

\* the consumer's session row belongs to the consumer's user
joined_as_self(c) ==
    \E s \in sessions : s.id = csession[c] /\ s.user = cuser[c]

\* group_send of a cursor event "if self.room.enable_cursor_tracking"
cursor_broadcast(c) ==
    IF rooms[croom[c]].enable_cursor_tracking
    THEN group_send(group[croom[c]],
                    Event(IF loc[c].atype = "cursor_move"
                          THEN "cursor_move_broadcast"
                          ELSE "selection_change_broadcast",
                          c, c, 0, cuser[c]))
    ELSE chan

CursorKinds == {"cursor_move", "selection_change"}

\* update_cursor_position, get_or_create(): SELECT
cursor_get(c, kind, pos) ==
    /\ Receive(c)
    /\ cuser[c] # None
    /\ loc' = [loc EXCEPT ![c] = [NoLoc EXCEPT !.atype = kind, !.pos = pos]]
    /\ pc' = [pc EXCEPT ![c] =
                IF cursor_rows(croom[c], cuser[c]) # {} THEN "cursor_update"
                ELSE "cursor_create"]
    /\ sent' = <<>>
    /\ UNCHANGED <<cleft_at, refused, http, now, rooms, sessions, activities, cursors, cstate, cuser,
                   croom, csession, group, chan, seen, lastcur>>

\* CursorPosition: unique_together (room, user), session OneToOne and NOT NULL
cursor_insert_ok(r, u, sid) ==
    /\ cursor_rows(r, u) = {}
    /\ sid # NoSession
    /\ \A k \in cursors : k.session # sid

set_position(k, pos) == [k EXCEPT !.position = pos]

\* get_or_create(): INSERT; on IntegrityError the (room, user) row is selected
\* and overwritten if it exists, else the error reaches the handler, which
\* logs it and sends nothing
cursor_create(c) ==
    /\ cstate[c] = "open"
    /\ pc[c] = "cursor_create"
    /\ LET r == croom[c]
           u == cuser[c]
           rows == cursor_rows(r, u) IN
       /\ IF cursor_insert_ok(r, u, csession[c])
          THEN /\ cursors' = cursors \cup
                     {[room |-> r, user |-> u, session |-> csession[c],
                       position |-> loc[c].pos]}
               /\ chan' = cursor_broadcast(c)
          ELSE IF rows # {}
          THEN /\ cursors' = (cursors \ rows) \cup
                     {set_position(k, loc[c].pos) : k \in rows}
               /\ chan' = cursor_broadcast(c)
          ELSE UNCHANGED <<cursors, chan>>
       /\ lastcur' = IF joined_as_self(c) \/ cursors' # cursors
                     THEN [lastcur EXCEPT ![r][u] = loc[c].pos]
                     ELSE lastcur
    /\ pc' = [pc EXCEPT ![c] = "idle"]
    /\ loc' = [loc EXCEPT ![c] = NoLoc]
    /\ sent' = <<>>
    /\ UNCHANGED <<cleft_at, refused, http, budget, now, rooms, sessions, activities, cstate, cuser, croom,
                   csession, group, seen>>

\* "if not created": cursor.position = position_data; cursor.save()
cursor_update(c) ==
    /\ cstate[c] = "open"
    /\ pc[c] = "cursor_update"
    /\ LET r == croom[c]
           u == cuser[c]
           rows == cursor_rows(r, u) IN
       /\ cursors' = (cursors \ rows) \cup
                       {set_position(k, loc[c].pos) : k \in rows}
       /\ lastcur' = [lastcur EXCEPT ![r][u] = loc[c].pos]
    /\ chan' = cursor_broadcast(c)
    /\ pc' = [pc EXCEPT ![c] = "idle"]
    /\ loc' = [loc EXCEPT ![c] = NoLoc]
    /\ sent' = <<>>
    /\ UNCHANGED <<cleft_at, refused, http, budget, now, rooms, sessions, activities, cstate, cuser, croom,
                   csession, group, seen>>

----------------------------------------------------------------------------
(* consumers.py: handle_user_typing, handle_heartbeat, disconnect           *)

handle_user_typing(c) ==
    /\ Receive(c)
    /\ cuser[c] # None
    /\ chan' = group_send(group[room_id(c)],
                 Event("user_typing_broadcast", c, c, 0, cuser[c]))
    /\ sent' = <<>>
    /\ UNCHANGED <<cleft_at, refused, http, now, rooms, sessions, activities, cursors, cstate, cuser,
                   croom, csession, pc, loc, group, seen, lastcur>>

\* CollaborationRoom.update_activity: save(update_fields=[last_activity])
room_update_activity(r) == [rooms EXCEPT ![r].last_activity = now]

\* CollaborationSession.duration of an instance whose left_at is l
duration(s, l) == IF l # NoTime THEN l - s.joined_at ELSE now - s.joined_at

\* CollaborationSession.update_activity on the consumer's instance, whose
\* status is active and whose left_at is l:
\* save(update_fields=[last_seen, last_activity, activity_count, total_time]);
\* the handler then calls room_update_activity
update_activity(s, l) ==
    [s EXCEPT !.last_seen = now, !.total_time = duration(s, l)]

\* handle_heartbeat with the pong inside "if self.session": a connection that
\* has not joined gets no answer
handle_heartbeat_joined_only(c) ==
    /\ Receive(c)
    /\ cuser[c] # None
    /\ sessions' = IF csession[c] # NoSession
                   THEN {IF s.id = csession[c] THEN update_activity(s, cleft_at[c])
                         ELSE s : s \in sessions}
                   ELSE sessions
    /\ sent' = IF csession[c] # NoSession
               THEN <<Frame(c, "pong", None, 0, None, now)>> ELSE <<>>
    /\ rooms' = IF csession[c] # NoSession
                THEN room_update_activity(croom[c]) ELSE rooms
    /\ UNCHANGED <<cleft_at, refused, http, now, activities, cursors, cstate,
                   cuser, croom, csession, pc, loc, group, chan, seen, lastcur>>

handle_heartbeat(c) ==
    /\ Receive(c)
    /\ cuser[c] # None
    /\ sessions' = IF csession[c] # NoSession
                   THEN {IF s.id = csession[c] THEN update_activity(s, cleft_at[c])
                         ELSE s :
                         s \in sessions}
                   ELSE sessions
    /\ sent' = <<Frame(c, "pong", None, 0, None, now)>>
    /\ rooms' = IF csession[c] # NoSession
                THEN room_update_activity(croom[c]) ELSE rooms
    /\ UNCHANGED <<cleft_at, refused, http, now, activities, cursors, cstate, cuser, croom,
                   csession, pc, loc, group, chan, seen, lastcur>>

\* CollaborationSession.disconnect that only flips the status and leaves
\* left_at and total_time as they were
session_disconnect_status_only(s) == [s EXCEPT !.status = "disconnected"]

\* CollaborationSession.disconnect:
\* save(update_fields=[status, left_at, total_time])
session_disconnect(s) ==
    [s EXCEPT !.status = "disconnected", !.left_at = now,
              !.total_time = duration(s, now)]

\* disconnect(): group_discard, session.disconnect(), broadcast_user_leave; the
\* consumer stops and its channel's queued events are never handled
disconnect_steps(c) ==
    /\ Ready(c)
    /\ cstate' = [cstate EXCEPT ![c] = "closed"]
    /\ LET r == room_id(c)
           g == group[r] \ {c} IN
       /\ group' = [group EXCEPT ![r] = g]
       /\ sessions' = IF csession[c] # NoSession
                      THEN {IF s.id = csession[c] THEN session_disconnect(s)
                            ELSE s : s \in sessions}
                      ELSE sessions
       /\ chan' = IF cuser[c] # None /\ croom[c] # None
                  THEN [group_send(g, Event("user_leave_broadcast", None, c, 0,
                                            cuser[c]))
                          EXCEPT ![c] = <<>>]
                  ELSE [chan EXCEPT ![c] = <<>>]
    /\ sent' = <<>>
    /\ UNCHANGED <<cleft_at, refused, http, budget, now, rooms, cursors, cuser, croom,
                   csession, pc, loc, seen, lastcur>>

\* disconnect that records the departure the way handle_join_room records the
\* arrival: record_activity("user_leave") of a joined consumer
disconnect_recording(c) ==
    /\ disconnect_steps(c)
    /\ activities' =
         IF csession[c] # NoSession
         THEN Append(activities,
                [room |-> croom[c], session |-> csession[c], user |-> cuser[c],
                 type |-> "user_leave", seq |-> next_sequence_number(croom[c])])
         ELSE activities

\* the code's disconnect records nothing
disconnect(c) ==
    /\ disconnect_steps(c)
    /\ UNCHANGED activities

----------------------------------------------------------------------------
(* consumers.py: *_broadcast, the handlers of channel-layer events          *)

Filtered == {"text_change_broadcast", "cursor_move_broadcast",
             "selection_change_broadcast", "user_typing_broadcast",
             "document_save_broadcast"}

\* "type" of the frame each event handler writes
frame_type(ev) ==
    CASE ev.type = "text_change_broadcast" -> "text_change"
      [] ev.type = "cursor_move_broadcast" -> "cursor_move"
      [] ev.type = "selection_change_broadcast" -> "selection_change"
      [] ev.type = "user_typing_broadcast" -> "user_typing"
      [] ev.type = "document_save_broadcast" -> "document_save"
      [] ev.type = "user_join_broadcast" -> "user_join"
      [] ev.type = "user_leave_broadcast" -> "user_leave"

\* "if event["sender_channel"] == self.channel_name: return" in the five
\* handlers of Filtered; user_join_broadcast and user_leave_broadcast send
\* unconditionally
broadcast_frames(c, ev) ==
    IF ev.type \in Filtered /\ ev.sender_channel = c THEN <<>>
    ELSE <<Frame(c, frame_type(ev), ev.origin, ev.seq, ev.user, None)>>

deliver(c) ==
    /\ Ready(c)
    /\ chan[c] # <<>>
    /\ LET ev == Head(chan[c]) IN
       /\ sent' = broadcast_frames(c, ev)
       /\ seen' = IF sent' # <<>> /\ ev.seq > seen[c]
                  THEN [seen EXCEPT ![c] = ev.seq] ELSE seen
    /\ chan' = [chan EXCEPT ![c] = Tail(chan[c])]
    /\ UNCHANGED <<cleft_at, refused, http, budget, now, rooms, sessions, activities, cursors, cstate, cuser,
                   croom, csession, pc, loc, group, lastcur>>

----------------------------------------------------------------------------
(* views.py: CollaborationRoomViewSet.join (POST rooms/<id>/join/)          *)

\* views.join "if not created": status, user_role, last_seen
http_reactivate(s) == [s EXCEPT !.status = "active", !.last_seen = now]

\* get_object (rooms of the user's teams), JoinRoomSerializer.validate
\* (room.can_join) and get_or_create()'s SELECT; a refused request changes
\* nothing
http_join(u, r) ==
    /\ http = NoHttp
    /\ budget > 0
    /\ budget' = budget - 1
    /\ IF is_member(r, u) /\ can_join(r, u)
       THEN LET rows == session_rows(r, u) IN
            IF rows # {}
            THEN /\ sessions' = (sessions \ rows) \cup
                                  {http_reactivate(s) : s \in rows}
                 /\ UNCHANGED http
            ELSE /\ http' = [user |-> u, room |-> r]
                 /\ UNCHANGED sessions
       ELSE UNCHANGED <<refused, http, sessions>>
    /\ sent' = <<>>
    /\ UNCHANGED <<cleft_at, refused, now, rooms, activities, cursors, cstate, cuser, croom,
                   csession, pc, loc, group, chan, seen, lastcur>>

\* get_or_create()'s INSERT for the HTTP join (connection_id stays blank)
http_create ==
    /\ http # NoHttp
    /\ LET r == http.room
           u == http.user
           rows == session_rows(r, u) IN
       sessions' = IF unique_room_user(r, u)
                   THEN sessions \cup
                          {new_session(Cardinality(sessions) + 1, r, u, None)}
                   ELSE (sessions \ rows) \cup
                          {http_reactivate(s) : s \in rows}
    /\ http' = NoHttp
    /\ sent' = <<>>
    /\ UNCHANGED <<cleft_at, refused, budget, now, rooms, activities, cursors, cstate, cuser,
                   croom, csession, pc, loc, group, chan, seen, lastcur>>

Next ==
    \/ Tick
    \/ \E c \in Conns, tok \in Tokens : handle_authentication(c, tok)
    \/ \E c \in Conns, type \in MessageTypes : authentication_required(c, type)
    \/ \E c \in Conns : receive_invalid_json(c)
    \/ \E c \in Conns : receive_unknown_type(c)
    \/ \E c \in Conns : join_get(c)
    \/ \E c \in Conns : join_create(c)
    \/ \E c \in Conns : join_rest(c)
    \/ \E c \in Conns : record_insert(c)
    \/ \E c \in Conns : record_send(c)
    \/ \E c \in Conns, valid \in BOOLEAN : handle_text_change(c, valid)
    \/ \E c \in Conns : handle_document_save(c)
    \/ \E c \in Conns, kind \in CursorKinds, pos \in Positions :
         cursor_get(c, kind, pos)
    \/ \E c \in Conns : cursor_create(c)
    \/ \E c \in Conns : cursor_update(c)
    \/ \E c \in Conns : handle_user_typing(c)
    \/ \E c \in Conns : handle_heartbeat(c)
    \/ \E c \in Conns : disconnect(c)
    \/ \E c \in Conns : deliver(c)
    \/ \E u \in Users, r \in Rooms : http_join(u, r)
    \/ http_create

Spec == Init /\ [][Next]_vars

\* the operations that read or write CollaborationSession rows or the clock:
\* authenticate and join_room over the WebSocket, the HTTP join, heartbeat,
\* close, and the passing of time
NextPresence ==
    \/ Tick
    \/ \E c \in Conns, tok \in Tokens : handle_authentication(c, tok)
    \/ \E c \in Conns : join_get(c)
    \/ \E c \in Conns : join_create(c)
    \/ \E c \in Conns : join_rest(c)
    \/ \E c \in Conns : record_insert(c)
    \/ \E c \in Conns : handle_heartbeat(c)
    \/ \E c \in Conns : disconnect(c)
    \/ \E c \in Conns : deliver(c)
    \/ \E u \in Users, r \in Rooms : http_join(u, r)
    \/ http_create

SpecPresence == Init /\ [][NextPresence]_vars

\* the WebSocket alone: every message type receive() dispatches, the event
\* handlers and close, with the clock still and no HTTP request
NextSocket ==
    \/ \E c \in Conns, tok \in Tokens : handle_authentication(c, tok)
    \/ \E c \in Conns, type \in MessageTypes : authentication_required(c, type)
    \/ \E c \in Conns : receive_invalid_json(c)
    \/ \E c \in Conns : receive_unknown_type(c)
    \/ \E c \in Conns : join_get(c)
    \/ \E c \in Conns : join_create(c)
    \/ \E c \in Conns : join_rest(c)
    \/ \E c \in Conns : record_insert(c)
    \/ \E c \in Conns : record_send(c)
    \/ \E c \in Conns, valid \in BOOLEAN : handle_text_change(c, valid)
    \/ \E c \in Conns : handle_document_save(c)
    \/ \E c \in Conns, kind \in CursorKinds, pos \in Positions :
         cursor_get(c, kind, pos)
    \/ \E c \in Conns : cursor_create(c)
    \/ \E c \in Conns : cursor_update(c)
    \/ \E c \in Conns : handle_user_typing(c)
    \/ \E c \in Conns : handle_heartbeat(c)
    \/ \E c \in Conns : disconnect(c)
    \/ \E c \in Conns : deliver(c)

SpecSocket == Init /\ [][NextSocket]_vars

\* inbound messages handled in one run of SpecPair
MaxMsgsPair == 5

\* two clients connected to an empty room that has room for both
InitPair == InitWith({"c1", "c2"}, 2, MaxMsgsPair)

\* authenticate, join_room and text_change, and the delivery of their events
NextPair ==
    \/ \E c \in Conns, tok \in Users : handle_authentication(c, tok)
    \/ \E c \in Conns : join_get(c)
    \/ \E c \in Conns : join_create(c)
    \/ \E c \in Conns : join_rest(c)
    \/ \E c \in Conns, valid \in BOOLEAN : handle_text_change(c, valid)
    \/ \E c \in Conns : record_insert(c)
    \/ \E c \in Conns : record_send(c)
    \/ \E c \in Conns : deliver(c)

SpecPair == InitPair /\ [][NextPair]_vars

\* CollaborationRoom.ROOM_STATUS
RoomStatuses == {"active", "paused", "archived"}

\* max_participants of the rooms of SpecAccess
MaxCapacity == 2

\* inbound messages and HTTP requests handled in one run of SpecAccess
MaxMsgsAccess == 2

\* two clients connected to an empty room of any configuration: status,
\* max_participants, allow_anonymous, the active members of the room's team and
\* the users the document grants read access
InitAccess ==
    /\ now = 0
    /\ \E st \in RoomStatuses, cap \in 1 .. MaxCapacity, anon \in BOOLEAN,
          mem \in SUBSET Users, rd \in SUBSET Users :
           rooms = [r \in Rooms |->
                      [status |-> st, max_participants |-> cap,
                       allow_anonymous |-> anon, enable_cursor_tracking |-> TRUE,
                   last_activity |-> 0,
                       members |-> mem, readers |-> rd]]
    /\ sessions = {}
    /\ activities = <<>>
    /\ cursors = {}
    /\ cstate = [c \in Conns |-> IF c \in {"c1", "c2"} THEN "open" ELSE "closed"]
    /\ cuser = [c \in Conns |-> None]
    /\ croom = [c \in Conns |-> None]
    /\ csession = [c \in Conns |-> NoSession]
    /\ pc = [c \in Conns |-> "idle"]
    /\ loc = [c \in Conns |-> NoLoc]
    /\ group = [r \in Rooms |-> {}]
    /\ chan = [c \in Conns |-> <<>>]
    /\ sent = <<>>
    /\ lastcur = [r \in Rooms |-> [u \in Users |-> None]]
    /\ refused = [c \in Conns |-> FALSE]
    /\ http = NoHttp
    /\ budget = MaxMsgsAccess
    /\ seen = [c \in Conns |-> 0]
    /\ cleft_at = [c \in Conns |-> NoTime]

\* the operations that evaluate can_join or act on its answer, and those that
\* change what it reads
NextAccess ==
    \/ Tick
    \/ \E c \in Conns, tok \in Users : handle_authentication(c, tok)
    \/ \E c \in Conns : join_get(c)
    \/ \E c \in Conns : join_create(c)
    \/ \E c \in Conns : join_rest(c)
    \/ \E c \in Conns : record_insert(c)
    \/ \E c \in Conns : disconnect(c)
    \/ \E c \in Conns : deliver(c)
    \/ \E u \in Users, r \in Rooms : http_join(u, r)
    \/ http_create

SpecAccess == InitAccess /\ [][NextAccess]_vars

\* inbound messages handled in one run of SpecRooms
MaxMsgsRooms == 4

\* two rooms with room for two participants each.  r1 is in use: c1 has
\* authenticated and joined as u1; its user_join row is in the log and the
\* join event is delivered.  r2 is empty and c4, a client of r2, has connected.
InitRooms ==
    /\ now = 0
    /\ rooms = [r \in BothRooms |->
                  [status |-> "active", max_participants |-> 2,
                   allow_anonymous |-> FALSE, enable_cursor_tracking |-> TRUE,
                   last_activity |-> 0,
                   members |-> Users, readers |-> Users]]
    /\ sessions = {new_session(1, "r1", "u1", "c1")}
    /\ activities = <<[room |-> "r1", session |-> 1, user |-> "u1",
                       type |-> "user_join", seq |-> 1]>>
    /\ cursors = {}
    /\ cstate = [c \in Conns |-> IF c \in {"c1", "c4"} THEN "open" ELSE "closed"]
    /\ cuser = [c \in Conns |-> IF c = "c1" THEN "u1" ELSE None]
    /\ croom = [c \in Conns |-> IF c = "c1" THEN "r1" ELSE None]
    /\ csession = [c \in Conns |-> IF c = "c1" THEN 1 ELSE NoSession]
    /\ pc = [c \in Conns |-> "idle"]
    /\ loc = [c \in Conns |-> NoLoc]
    /\ group = [r \in BothRooms |-> IF r = "r1" THEN {"c1"} ELSE {}]
    /\ chan = [c \in Conns |-> <<>>]
    /\ sent = <<>>
    /\ lastcur = [r \in BothRooms |-> [u \in Users |-> None]]
    /\ refused = [c \in Conns |-> FALSE]
    /\ http = NoHttp
    /\ budget = MaxMsgsRooms
    /\ seen = [c \in Conns |-> 0]
    /\ cleft_at = [c \in Conns |-> NoTime]

\* authenticate, join_room, the messages that record an activity or only
\* broadcast, close, and the delivery of the events
NextRooms ==
    \/ \E c \in Conns, tok \in Users : handle_authentication(c, tok)
    \/ \E c \in Conns : join_get(c)
    \/ \E c \in Conns : join_create(c)
    \/ \E c \in Conns : join_rest(c)
    \/ \E c \in Conns : handle_text_change(c, TRUE)
    \/ \E c \in Conns : record_insert(c)
    \/ \E c \in Conns : record_send(c)
    \/ \E c \in Conns : handle_user_typing(c)
    \/ \E c \in Conns : disconnect(c)
    \/ \E c \in Conns : deliver(c)

SpecRooms == InitRooms /\ [][NextRooms]_vars



----------------------------------------------------------------------------
(* A room in use.  Three clients have authenticated and joined, one after   *)
(* the other: c1 as u1, c2 as u2, then c3 as u1 again (a second tab, which   *)
(* get_or_create_session gives u1's row), in a room with room for all.  The *)
(* three user_join rows are in the log and the join events are delivered.   *)

\* the three clients of room r1
Tabs == {"c1", "c2", "c3"}

InitJoinedWith(b, tracking) ==
    /\ now = 0
    /\ rooms = [r \in Rooms |->
                  [status |-> "active", max_participants |-> Cardinality(Tabs),
                   allow_anonymous |-> FALSE, enable_cursor_tracking |-> tracking,
                   last_activity |-> 0,
                   members |-> Users, readers |-> Users]]
    /\ sessions = {[id |-> 1, room |-> "r1", user |-> "u1", status |-> "active",
                    connection_id |-> "c3", last_seen |-> 0, session_token |-> 1,
                    joined_at |-> 0, left_at |-> NoTime, total_time |-> 0],
                   [id |-> 2, room |-> "r1", user |-> "u2", status |-> "active",
                    connection_id |-> "c2", last_seen |-> 0, session_token |-> 2,
                    joined_at |-> 0, left_at |-> NoTime, total_time |-> 0]}
    /\ activities = <<[room |-> "r1", session |-> 1, user |-> "u1",
                       type |-> "user_join", seq |-> 1],
                      [room |-> "r1", session |-> 2, user |-> "u2",
                       type |-> "user_join", seq |-> 2],
                      [room |-> "r1", session |-> 1, user |-> "u1",
                       type |-> "user_join", seq |-> 3]>>
    /\ cursors = {}
    /\ cstate = [c \in Conns |-> IF c \in Tabs THEN "open" ELSE "closed"]
    /\ cuser = [c \in Conns |-> IF c = "c2" THEN "u2"
                              ELSE IF c \in Tabs THEN "u1" ELSE None]
    /\ croom = [c \in Conns |-> IF c \in Tabs THEN "r1" ELSE None]
    /\ csession = [c \in Conns |-> IF c = "c2" THEN 2
                                 ELSE IF c \in Tabs THEN 1 ELSE NoSession]
    /\ pc = [c \in Conns |-> "idle"]
    /\ loc = [c \in Conns |-> NoLoc]
    /\ group = [r \in Rooms |-> Tabs]
    /\ chan = [c \in Conns |-> <<>>]
    /\ sent = <<>>
    /\ lastcur = [r \in Rooms |-> [u \in Users |-> None]]
    /\ refused = [c \in Conns |-> FALSE]
    /\ http = NoHttp
    /\ budget = b
    /\ seen = [c \in Conns |-> 0]
    /\ cleft_at = [c \in Conns |-> NoTime]

\* the room's enable_cursor_tracking has its default, True
InitJoined(b) == InitJoinedWith(b, TRUE)

\* inbound messages handled in one run of SpecEdit
MaxMsgsEdit == 2

InitEdit == InitJoined(MaxMsgsEdit)

\* the messages that record an activity and announce it
NextEdit ==
    \/ \E c \in Conns, valid \in BOOLEAN : handle_text_change(c, valid)
    \/ \E c \in Conns : handle_document_save(c)
    \/ \E c \in Conns : record_insert(c)
    \/ \E c \in Conns : record_send(c)
    \/ \E c \in Conns : deliver(c)

SpecEdit == InitEdit /\ [][NextEdit]_vars

\* inbound messages handled in one run of SpecCursor
MaxMsgsCursor == 3

InitCursor == InitJoined(MaxMsgsCursor)

\* the messages that move a cursor, and authenticate
NextCursor ==
    \/ \E c \in Conns, tok \in Tokens : handle_authentication(c, tok)
    \/ \E c \in Conns, kind \in CursorKinds, pos \in Positions :
         cursor_get(c, kind, pos)
    \/ \E c \in Conns : cursor_create(c)
    \/ \E c \in Conns : cursor_update(c)
    \/ \E c \in Conns : deliver(c)

SpecCursor == InitCursor /\ [][NextCursor]_vars

\* the room in use, with enable_cursor_tracking on or off
InitTracking == \E tracking \in BOOLEAN : InitJoinedWith(MaxMsgsCursor, tracking)

SpecTracking == InitTracking /\ [][NextCursor]_vars

----------------------------------------------------------------------------
(* Properties                                                               *)

\* rows of the log that belong to room r
room_activities(r) == {i \in DOMAIN activities : activities[i].room = r}

\* a session is live iff status = active and now - lastSeen <= window
LiveSessions(r) ==
    {s \in sessions : s.room = r /\ s.status = "active"
                      /\ now - s.last_seen <= LivenessWindow}

\* frames that carry a broadcast event of a room
BroadcastFrames == {"text_change", "cursor_move", "selection_change",
                    "user_typing", "document_save", "user_join", "user_leave"}

\* C1: in every room, whatever the interleaving of the consumers that record
\* activities, the sequence numbers of the room's activities are pairwise
\* distinct and are exactly 1..n, n the number of activities of the room.
C1_SequenceNumbersGapless ==
    \A r \in Rooms :
        /\ \A i, j \in room_activities(r) :
               i # j => activities[i].seq # activities[j].seq
        /\ {activities[i].seq : i \in room_activities(r)}
               = 1 .. Cardinality(room_activities(r))

\* C2: a connection of a user with no session in the room whose authenticate
\* met a full room never gets a session, whatever it sends afterwards, and is
\* never told room_joined.
C2_RefusedConnectionNeverJoins ==
    /\ \A c \in Conns : refused[c] => csession[c] = NoSession
    /\ \A i \in DOMAIN sent :
           sent[i].type = "room_joined" => ~refused[sent[i].to]

\* C3: in every reachable state the live sessions of a room (status active,
\* last_seen within the window) number at most the room's max_participants.
C3_LiveSessionsWithinCapacity ==
    \A r \in Rooms : Cardinality(LiveSessions(r)) <= rooms[r].max_participants

\* C4: at most one Session row exists per (room, user); a row is never deleted
\* and keeps its id, room and user; and every room_joined frame carries the id
\* of the one row of the joining user, so a join by a user who has a row
\* returns that row's id, also when two connections of the user join at once.
C4_OneSessionPerRoomUser ==
    /\ [](/\ \A r \in Rooms, u \in Users : Cardinality(session_rows(r, u)) <= 1
          /\ \A s, t \in sessions : s.id = t.id => s = t
          /\ \A i \in DOMAIN sent :
                 sent[i].type = "room_joined" =>
                     \E s \in sessions :
                         /\ s.id = sent[i].info.session_id
                         /\ s.room = croom[sent[i].to]
                         /\ s.user = sent[i].user)
    /\ [][\A s \in sessions :
              \E t \in sessions' :
                  t.id = s.id /\ t.room = s.room /\ t.user = s.user]_vars

\* C4 witness: two connections of one user are inside handle_join_room at the
\* same time and hold the same session id.
C4_Witness ==
    \E c, d \in Conns :
        /\ c # d
        /\ cuser[c] = cuser[d]
        /\ pc[c] = "join_rest"
        /\ pc[d] \in {"join_rest", "rec_insert"}
        /\ csession[c] # NoSession
        /\ csession[c] = csession[d]

\* C5: no frame of an event that an inbound message of connection c caused
\* (text_change, cursor_move, selection_change, user_typing, document_save,
\* and the user_join of join_room) is sent on connection c itself.
C5_NoEchoToOrigin ==
    \A i \in DOMAIN sent :
        sent[i].type \in BroadcastFrames \ {"user_leave"} =>
            sent[i].origin # sent[i].to

\* C6: a broadcast frame of another connection's event is sent only to
\* connections whose session is live: a connection whose session's last_seen
\* is older than the window gets none, open and attached though it is.
C6_BroadcastOnlyToLive ==
    \A i \in DOMAIN sent :
        sent[i].type \in BroadcastFrames /\ sent[i].origin # sent[i].to =>
            ~\E s \in sessions :
                /\ s.id = csession[sent[i].to]
                /\ now - s.last_seen > LivenessWindow

\* C7: ActiveSessionCount(room) is, in every step's result, the number of the
\* room's sessions with status = active and now - last_seen <= 5 minutes, and
\* is_full compares that number with max_participants; when time passes, the
\* count drops by the number of sessions that leave the window, with no
\* session or room row written and no connection closed or detached.
C7_ActiveSessionCount ==
    [][/\ \A r \in Rooms :
            /\ active_participants_count(r)' = Cardinality(LiveSessions(r))'
            /\ is_full(r)' =
                 (Cardinality(LiveSessions(r))' >= rooms'[r].max_participants)
       /\ now' # now =>
            /\ sessions' = sessions /\ rooms' = rooms
            /\ cstate' = cstate /\ group' = group
            /\ \A r \in Rooms :
                 active_participants_count(r)' =
                     active_participants_count(r)
                       - Cardinality({s \in LiveSessions(r) :
                                        now' - s.last_seen > LivenessWindow})]_vars

\* C7 witness: a session with status active went silent for longer than the
\* window; its connection is open and attached, and the room counts nobody.
C7_Witness ==
    \E c \in Conns, s \in sessions :
        /\ s.id = csession[c]
        /\ s.status = "active"
        /\ now - s.last_seen > LivenessWindow
        /\ cstate[c] = "open"
        /\ c \in group[s.room]
        /\ active_participants_count(s.room) = 0

\* C8: for two activities of a room with sequence numbers i < j whose frames
\* both reach one connection, the frame of i reaches it before the frame of j:
\* no frame carries a sequence number below one the connection has received.
C8_DeliveryInSequenceOrder ==
    \A i \in DOMAIN sent :
        sent[i].seq > 0 => sent[i].seq >= seen[sent[i].to]

\* C9: once cursor_move / selection_change messages of a user have been
\* handled in a room, exactly one CursorPosition row exists for (room, user)
\* and it holds the position of the last one handled.
C9_OneCursorRowLastWrite ==
    \A r \in Rooms, u \in Users :
        lastcur[r][u] # None =>
            /\ Cardinality(cursor_rows(r, u)) = 1
            /\ \A k \in cursor_rows(r, u) : k.position = lastcur[r][u]

\* C10: handling cursor_move, selection_change, user_typing or heartbeat, and
\* handling a connection's close, adds no Activity row, changes none, and
\* leaves every room's next sequence number as it was: a step that changes the
\* log or a room's next sequence number is none of these handlers' steps.
C10_TransientMessagesNotSequenced ==
    [][(\/ activities' # activities
        \/ \E r \in Rooms :
               next_sequence_number(r)' # next_sequence_number(r))
        => ~\E c \in Conns :
               \/ \E kind \in CursorKinds, pos \in Positions :
                      cursor_get(c, kind, pos)
               \/ cursor_create(c)
               \/ cursor_update(c)
               \/ handle_user_typing(c)
               \/ handle_heartbeat(c)
               \/ disconnect(c)]_vars

\* C10 witness: a heartbeat of a joined connection was answered while the log
\* already held activities.
C10_Witness ==
    /\ activities # <<>>
    /\ \E i \in DOMAIN sent :
           sent[i].type = "pong" /\ csession[sent[i].to] # NoSession

\* positions in the log of the room's text_insert rows
text_rows(r) ==
    {i \in DOMAIN activities :
        activities[i].room = r /\ activities[i].type = "text_insert"}

\* the users whose user_join row precedes position i in the log of room r
joined_before(r, i) ==
    {activities[j].user : j \in {k \in 1 .. (i - 1) :
        activities[k].room = r /\ activities[k].type = "user_join"}}

\* C11: in a room that had no activity before sessions A and B joined, the
\* first text_change recorded after both joins has sequence number 1 and the
\* following one, by the other session, has sequence number 2; and a
\* text_change frame is never sent to the connection that submitted it.
C11_FirstTextChangesNumbered ==
    /\ \A r \in Rooms : \A i \in text_rows(r) :
           Cardinality(joined_before(r, i)) = 2 =>
               LET k == Cardinality({j \in text_rows(r) : j <= i}) IN
               k <= 2 => activities[i].seq = k
    /\ \A i \in DOMAIN sent :
           sent[i].type = "text_change" => sent[i].origin # sent[i].to

\* the conditions of CanJoin that no join or clock tick changes: the room is
\* active, the user is an active team member or anonymous joins are allowed,
\* and the document grants the user read access
permitted(r, u) ==
    /\ rooms[r].status = "active"
    /\ rooms[r].allow_anonymous \/ u \in rooms[r].members
    /\ u \in rooms[r].readers

\* C12: a connection whose principal fails CanJoin for the room's status, the
\* team membership or the document's read access holds no Session of the room
\* and is not among the room's broadcast recipients, whatever it has sent.
C12_DeniedPrincipalNeverJoins ==
    \A c \in Conns :
        cuser[c] # None /\ ~permitted(room_id(c), cuser[c]) =>
            /\ csession[c] = NoSession
            /\ c \notin group[room_id(c)]

\* the user_leave event of connection c's close
is_leave_of(ev, c) == ev.type = "user_leave_broadcast" /\ ev.origin = c

\* C13: the step that closes the connection of a joined session keeps the
\* session's row and leaves it with status disconnected, left_at = the time of
\* the close and total_time = left_at - joined_at; it hands the user_leave
\* event to every other connection attached to the room (the channel layer
\* holds at most MaxQueue events per channel) and not to the closing one, which
\* is detached; and no user_leave frame goes to the connection that closed.
C13_CloseEndsSession ==
    /\ [][\A c \in Conns :
            cstate[c] = "open" /\ cstate'[c] = "closed"
            /\ (\E s \in sessions : s.id = csession[c])
            => /\ Cardinality(sessions') = Cardinality(sessions)
               /\ \E t \in sessions' :
                      /\ t.id = csession[c]
                      /\ t.status = "disconnected"
                      /\ t.left_at = now'
                      /\ t.total_time = t.left_at - t.joined_at
               /\ c \notin group'[croom[c]]
               /\ \A i \in DOMAIN chan'[c] : ~is_leave_of(chan'[c][i], c)
               /\ \A d \in group[croom[c]] \ {c} :
                      Len(chan[d]) < MaxQueue =>
                          /\ Len(chan'[d]) = Len(chan[d]) + 1
                          /\ is_leave_of(chan'[d][Len(chan'[d])], c)]_vars
    /\ [](\A i \in DOMAIN sent :
              sent[i].type = "user_leave" => sent[i].origin # sent[i].to)

\* C13 witness: a session that was joined, stayed for a while and was closed,
\* and another connection is being told that its user left.
C13_Witness ==
    \E s \in sessions, i \in DOMAIN sent :
        /\ s.status = "disconnected"
        /\ s.total_time > 0
        /\ sent[i].type = "user_leave"
        /\ sent[i].user = s.user

\* C14: when get_or_create_session of a join_room finds, or loses the INSERT
\* race to, a Session of the connection's (room, user) - in any status - no
\* row is added and that row comes out with the id and session token it had,
\* status active, connection_id = the joining connection and last_seen = the
\* time of the join, and it is the session the connection holds.
C14_RejoinReactivatesSameSession ==
    [][\A c \in Conns :
         pc[c] \in {"idle", "join_create"} /\ pc'[c] = "join_rest" =>
            \A s \in session_rows(croom[c], cuser[c]) :
                /\ Cardinality(sessions') = Cardinality(sessions)
                /\ csession'[c] = s.id
                /\ \E t \in sessions' :
                       /\ t.id = s.id
                       /\ t.session_token = s.session_token
                       /\ t.room = s.room /\ t.user = s.user
                       /\ t.status = "active"
                       /\ t.connection_id = c
                       /\ t.last_seen = now']_vars

\* C14 witness: a session that had been closed is active again, held by the
\* connection that is inside handle_join_room.
C14_Witness ==
    \E c \in Conns, s \in sessions :
        /\ pc[c] = "join_rest"
        /\ csession[c] = s.id
        /\ s.left_at # NoTime
        /\ s.status = "active"
        /\ s.connection_id = c

\* C15: the step that completes the handling of a text_change, cursor_move,
\* selection_change, user_typing, document_save or heartbeat of a joined
\* connection leaves the connection's session with last_seen = the time of
\* the handling.
C15_EveryMessageRefreshesLastSeen ==
    [][\A c \in Conns :
         /\ csession[c] # NoSession
         /\ \/ record_send(c)
            \/ cursor_create(c)
            \/ cursor_update(c)
            \/ handle_user_typing(c)
            \/ handle_heartbeat(c)
         => \A t \in sessions' : t.id = csession[c] => t.last_seen = now']_vars

\* C16 as stated: every heartbeat received on an open connection, whether it
\* has authenticated or not, is answered with a pong frame on that connection.
C16_HeartbeatAlwaysPong ==
    [][\A c \in Conns :
         handle_heartbeat(c) \/ authentication_required(c, "heartbeat") =>
            \E i \in DOMAIN sent' :
                sent'[i].type = "pong" /\ sent'[i].to = c]_vars

\* C16 amended: a heartbeat on a connection that has presented a valid token,
\* joined or not, is answered with exactly one frame, a pong on that
\* connection; on a connection that has not, it is answered with the error
\* frame "Authentication required" and no pong.
C16_HeartbeatPongWhenAuthenticated ==
    [][\A c \in Conns :
         /\ handle_heartbeat(c) =>
                /\ cuser[c] # None
                /\ Len(sent') = 1
                /\ sent'[1].type = "pong" /\ sent'[1].to = c
         /\ authentication_required(c, "heartbeat") =>
                /\ cuser[c] = None
                /\ sent' = <<send_error(c, "Authentication required")>>]_vars

\* C16 witness: a connection that authenticated and never joined has its
\* heartbeat answered.
C16_Witness ==
    \E i \in DOMAIN sent :
        /\ sent[i].type = "pong"
        /\ cuser[sent[i].to] # None
        /\ csession[sent[i].to] = NoSession

\* the error frames handle_authentication answers a failed authenticate with
AuthFailures == {"Token required", "Invalid token"}
JoinRefusals == {"Cannot join room"}

\* C17: a connection whose authenticate failed (missing or invalid token) or
\* whose principal may not join the room has been closed by the server: it
\* is not open when the error has been sent.
C17_FailedAuthenticationCloses ==
    \A i \in DOMAIN sent :
        /\ sent[i].type = "error"
        /\ sent[i].info \in AuthFailures \cup JoinRefusals
        => cstate[sent[i].to] = "closed"

\* what connection c can do while it has presented no valid token: send a
\* message of any type or one that is no JSON, send an authenticate that fails
\* on its token, close
unauthenticated_step(c) ==
    /\ cuser[c] = None
    /\ \/ \E type \in MessageTypes : authentication_required(c, type)
       \/ \E tok \in Tokens \ Users : handle_authentication(c, tok)
       \/ receive_invalid_json(c)
       \/ receive_unknown_type(c)
       \/ join_get(c)
       \/ \E valid \in BOOLEAN : handle_text_change(c, valid)
       \/ handle_document_save(c)
       \/ \E kind \in CursorKinds, pos \in Positions : cursor_get(c, kind, pos)
       \/ handle_user_typing(c)
       \/ handle_heartbeat(c)
       \/ disconnect(c)

\* C18: a step of a connection that has presented no valid token leaves every
\* Session, Activity and CursorPosition row as it was, puts no event on any
\* other connection's channel and sends frames to itself only; unless the
\* step is its close, it is answered with error frames and nothing else.
C18_UnauthenticatedChangesNothing ==
    [][\A c \in Conns :
         unauthenticated_step(c) =>
            /\ sessions' = sessions
            /\ activities' = activities
            /\ cursors' = cursors
            /\ group' = group
            /\ \A d \in Conns \ {c} : chan'[d] = chan[d]
            /\ \A i \in DOMAIN sent' :
                   sent'[i].to = c /\ sent'[i].type = "error"
            /\ cstate'[c] = "open" => sent' # <<>>]_vars

\* C18 witness: in a room with a joined participant, a connection that never
\* authenticated is told "Authentication required".
C18_Witness ==
    /\ sessions # {}
    /\ \E r \in Rooms : group[r] # {}
    /\ \E i \in DOMAIN sent :
           /\ sent[i] = send_error(sent[i].to, "Authentication required")
           /\ cuser[sent[i].to] = None

\* a message the server cannot use: no JSON, a type without a handler, or a
\* text_change without operation, position or content
bad_message(c) ==
    \/ receive_invalid_json(c)
    \/ receive_unknown_type(c)
    \/ handle_text_change(c, FALSE)

\* C19: a bad message of connection c is answered with one error frame on c;
\* it adds no Activity, leaves every room's next sequence number and every
\* channel of the channel layer as they were, and leaves the connection open
\* and idle with all of its state and the room's state unchanged, so that its
\* next message is handled as if the bad one had not been sent.
C19_BadMessageOnlyAnswered ==
    [][\A c \in Conns :
         bad_message(c) =>
            /\ Len(sent') = 1
            /\ sent'[1].type = "error" /\ sent'[1].to = c
            /\ activities' = activities
            /\ \A r \in Rooms :
                   next_sequence_number(r)' = next_sequence_number(r)
            /\ chan' = chan
            /\ cstate'[c] = "open" /\ pc'[c] = "idle"
            /\ UNCHANGED <<now, rooms, sessions, cursors, cstate, cuser, croom,
                           csession, cleft_at, pc, loc, group>>]_vars

\* C19 witness: a joined connection is told that its text_change lacks fields,
\* in a room whose log holds activities.
C19_Witness ==
    /\ activities # <<>>
    /\ \E i \in DOMAIN sent :
           /\ sent[i] = send_error(sent[i].to,
                                   "Missing required fields for text change")
           /\ csession[sent[i].to] # NoSession
           /\ cstate[sent[i].to] = "open"

\* C20: for every room and user, can_join is true exactly when the room's
\* status is active, the number of its live sessions is below max_participants,
\* the room allows anonymous joins or the user is an active member of the
\* room's team, and the document's read check grants the user access.
C20_CanJoinExactlyFourConditions ==
    \A r \in Rooms : \A u \in Users :
        can_join(r, u) <=>
            /\ rooms[r].status = "active"
            /\ Cardinality(LiveSessions(r)) < rooms[r].max_participants
            /\ rooms[r].allow_anonymous \/ is_member(r, u)
            /\ can_read(r, u)

\* C20 witness: a room with as many active Session rows as max_participants, one
\* of them no longer live, where can_join is true for one user and false for
\* another.
C20_Witness ==
    \E r \in Rooms :
        /\ Cardinality({s \in sessions : s.room = r /\ s.status = "active"})
               >= rooms[r].max_participants
        /\ LiveSessions(r) # {s \in sessions : s.room = r /\ s.status = "active"}
        /\ \E u \in Users : can_join(r, u)
        /\ \E u \in Users : ~can_join(r, u)

\* C21: the step that records an Activity row (for join_room, text_change or
\* document_save) leaves the room's last_activity at the time of the
\* recording.
C21_ActivityTouchesRoom ==
    [][\A c \in Conns :
         record_insert(c) => rooms'[croom[c]].last_activity = now']_vars

\* C22: the participants list of a room_joined frame is the set of users whose
\* session in the room is live when the frame is sent (status active, last_seen
\* within the window), and the joining user is in it.
C22_ParticipantsAreLiveUsers ==
    \A i \in DOMAIN sent :
        sent[i].type = "room_joined" =>
            /\ sent[i].info.participants =
                   {s.user : s \in LiveSessions(croom[sent[i].to])}
            /\ sent[i].user \in sent[i].info.participants

\* rows of the log that belong to room r, as a set of rows
activities_of(r) == {activities[i] : i \in room_activities(r)}

\* C23: the step that records an activity in room X leaves the Activities and
\* the next sequence number of every other room Y as they were; every event
\* queued for a connection and every broadcast frame sent to it comes from a
\* connection of the room the receiving connection is attached to.
C23_RoomsIsolated ==
    /\ [][\A c \in Conns :
            record_insert(c) =>
               /\ activities' # activities
               /\ \A y \in BothRooms \ {croom[c]} :
                      /\ activities_of(y)' = activities_of(y)
                      /\ next_sequence_number(y)' = next_sequence_number(y)]_vars
    /\ [](/\ \A c \in Conns : \A i \in DOMAIN chan[c] :
                 room_id(chan[c][i].origin) = room_id(c)
          /\ \A i \in DOMAIN sent :
                 sent[i].type \in BroadcastFrames =>
                     room_id(sent[i].origin) = room_id(sent[i].to))

\* C23 witness: both rooms hold a text_insert row with sequence number 2,
\* and both have an attached connection.
C23_Witness ==
    \A r \in BothRooms :
        /\ group[r] # {}
        /\ \E i \in text_rows(r) : activities[i].seq = 2

\* the steps the server takes by itself, once their message has arrived: the
\* rest of a handler that has started, and the handling of a queued event
server_step ==
    \E c \in Conns :
        \/ join_create(c)
        \/ join_rest(c)
        \/ record_insert(c)
        \/ deliver(c)

\* authenticate, join_room, heartbeat and close, with the clock.  Time passes
\* and the server finishes what it has started; no client is bound to send
\* anything or to close.
NextSweep ==
    \/ Tick
    \/ \E c \in Conns, tok \in Users : handle_authentication(c, tok)
    \/ \E c \in Conns : join_get(c)
    \/ server_step
    \/ \E c \in Conns : handle_heartbeat(c)
    \/ \E c \in Conns : disconnect(c)

SpecSweep == Init /\ [][NextSweep]_vars /\ WF_vars(Tick) /\ WF_vars(server_step)

\* session id is active, its last_seen is older than the window and the
\* connection that holds it is open
stale_and_open(id) ==
    \E s \in sessions, c \in Conns :
        /\ s.id = id /\ s.status = "active"
        /\ now - s.last_seen > LivenessWindow
        /\ csession[c] = id /\ cstate[c] = "open"

session_ids == 1 .. Cardinality(Users)

\* C24: a session that is active, older than the liveness window and on an
\* open transport is eventually moved to status idle (unless it is refreshed
\* or closed first); and a session's status only changes from active to idle,
\* from active or idle to disconnected in a step that closes a connection, or
\* back to active, a new row being active.
C24_StaleSessionSweptToIdle ==
    /\ \A id \in session_ids :
           stale_and_open(id) ~>
               \/ \E s \in sessions : s.id = id /\ s.status = "idle"
               \/ ~stale_and_open(id)
    /\ [][\A t \in sessions' :
            IF \E s \in sessions : s.id = t.id
            THEN \A s \in sessions :
                   s.id = t.id /\ s.status # t.status =>
                     \/ s.status = "active" /\ t.status = "idle"
                     \/ /\ s.status \in {"active", "idle"}
                        /\ t.status = "disconnected"
                        /\ \E c \in Conns :
                               cstate[c] = "open" /\ cstate'[c] = "closed"
                     \/ t.status = "active"
            ELSE t.status = "active"]_vars

\* C25: the close of a connection that is no longer its session's current
\* connection (connection_id names another, open connection that joined
\* later) leaves the session active and live.
C25_StaleConnectionCloseKeepsSession ==
    [][\A c \in Conns : \A s \in sessions :
         /\ disconnect(c)
         /\ s.id = csession[c]
         /\ s.connection_id # c
         /\ s.connection_id \in Conns
         /\ cstate[s.connection_id] = "open"
         /\ csession[s.connection_id] = s.id
         /\ s \in LiveSessions(s.room)
         => \E t \in LiveSessions(s.room)' : t.id = s.id]_vars

\* C26: a broadcast frame (user_typing, cursor_move, selection_change,
\* text_change, document_save, user_join, user_leave) that reaches a connection
\* comes from a connection that has joined: one that is authenticated but holds
\* no session causes no frame on another connection.
C26_OnlyJoinedAffectOthers ==
    \A i \in DOMAIN sent :
        sent[i].type \in BroadcastFrames /\ sent[i].origin # sent[i].to =>
            csession[sent[i].origin] # NoSession

\* C27: every Activity row's user is the user of the row's session, and every
\* CursorPosition row's user is the user of the row's session, whatever the
\* connections have sent, repeated authenticate messages included.
C27_RowsBelongToSessionUser ==
    /\ \A i \in DOMAIN activities :
           \A s \in sessions :
               s.id = activities[i].session => s.user = activities[i].user
    /\ \A k \in cursors :
           \A s \in sessions : s.id = k.session => s.user = k.user

\* C28: in every reachable state a session with status active has left_at
\* unset, also after a rejoin has reactivated a session that was disconnected;
\* and the total_time a heartbeat writes for it is the time from joined_at to
\* the heartbeat.
C28_ActiveSessionHasNoLeftAt ==
    /\ [](\A s \in sessions : s.status = "active" => s.left_at = NoTime)
    /\ [][\A c \in Conns :
            handle_heartbeat(c) =>
               \A t \in sessions' :
                   t.id = csession[c] /\ t.status = "active" =>
                       t.total_time = now' - t.joined_at]_vars

\* C29: an authenticate message is answered with exactly one frame on its
\* connection: the authenticated frame, and no error frame, when the token is
\* valid and can_join holds; an error frame when the authenticate fails.
C29_AuthenticateOneFrame ==
    [][\A c \in Conns, tok \in Tokens :
         handle_authentication(c, tok) =>
            /\ Len(sent') = 1
            /\ sent'[1].to = c
            /\ sent'[1].type =
                 IF tok \in Users /\ can_join(room_id(c), tok)
                 THEN "authenticated" ELSE "error"]_vars

\* the event a cursor handler of connection c hands to the group
is_cursor_event_of(ev, c) ==
    /\ ev.origin = c
    /\ ev.type = IF loc[c].atype = "cursor_move" THEN "cursor_move_broadcast"
                 ELSE "selection_change_broadcast"

\* C30: the step that ends the handling of a cursor_move or selection_change
\* of a joined connection leaves the user's CursorPosition row with the new
\* position, whatever enable_cursor_tracking is; with tracking off it hands no
\* event to any channel, with tracking on it hands the event to every other
\* connection of the room (the channel layer holds at most MaxQueue events per
\* channel); and a cursor_move or selection_change frame is only sent in a
\* room with tracking on, and never to the connection it comes from.
C30_CursorTrackingGatesBroadcast ==
    /\ [][\A c \in Conns :
            (cursor_create(c) \/ cursor_update(c)) /\ csession[c] # NoSession =>
               /\ \E k \in cursor_rows(croom[c], cuser[c])' :
                      k.position = loc[c].pos
               /\ IF rooms[croom[c]].enable_cursor_tracking
                  THEN \A d \in group[croom[c]] \ {c} :
                         Len(chan[d]) < MaxQueue =>
                             /\ Len(chan'[d]) = Len(chan[d]) + 1
                             /\ is_cursor_event_of(chan'[d][Len(chan'[d])], c)
                  ELSE chan' = chan]_vars
    /\ [](\A i \in DOMAIN sent :
             sent[i].type \in CursorKinds =>
                 /\ rooms[room_id(sent[i].to)].enable_cursor_tracking
                 /\ sent[i].origin # sent[i].to)

====
